---- MODULE Spec2Model ----
(***************************************************************************)
(* Model of the YNAB / PayPal transaction matcher (src/src/matcher.py).    *)
(*                                                                         *)
(* Amounts are integers in minor units (pence); the scorer only uses their *)
(* ratio.  Dates are day numbers; BadDate stands for a date string that    *)
(* strptime rejects (or a missing 'date' key).  Scores are exact rationals *)
(* <<n, d>> in lowest terms with d > 0, so that equal scores are equal     *)
(* values and the thresholds 0.5 / 0.7 / 0.9 are compared exactly.  A      *)
(* Python ZeroDivisionError is the value <<1, 0>>.                         *)
(***************************************************************************)
EXTENDS Integers, Sequences, FiniteSets, TLC

VARIABLES
    date_tolerance_days,       \* self.date_tolerance_days
    amount_tolerance_percent,  \* self.amount_tolerance_percent
    ynab_transactions,         \* argument of match_transactions
    paypal_transactions,       \* argument of match_transactions
    matches,                   \* local list of match_transactions / its result
    matched_paypal_ids,        \* local set of match_transactions
    pc,                        \* position of the caller
    updates,                   \* last result of generate_update_script
    min_confidence,            \* argument of the last generate_update_script
    score,                     \* last result of _calculate_match_score
    confidence,                \* last result of _get_confidence_level
    results,                   \* the lists match_transactions has returned so far
    start_date,                \* argument of get_transactions_for_range
    end_date,                  \* argument of get_transactions_for_range
    current_start,             \* local of get_transactions_for_range
    requests,                  \* the get_transactions calls made so far
    update,                    \* the --update flag of run_matcher
    answer,                    \* what the user typed at the prompt of apply_updates
    sent,                      \* the update_transaction_memo calls made so far
    success_count              \* local of apply_updates

\* The variables of PayPalAPIClient.get_transactions_for_range
range_vars == << start_date, end_date, current_start, requests >>
\* The variables of run_matcher and apply_updates
apply_vars == << update, answer, sent, success_count >>
\* The variables of the matcher
matcher_vars == << date_tolerance_days, amount_tolerance_percent, ynab_transactions,
                   paypal_transactions, matches, matched_paypal_ids,
                   updates, min_confidence, score, confidence, results >>

vars == << date_tolerance_days, amount_tolerance_percent, ynab_transactions,
           paypal_transactions, matches, matched_paypal_ids, pc,
           updates, min_confidence, score, confidence, results,
           start_date, end_date, current_start, requests,
           update, answer, sent, success_count >>

\* get_transactions_for_range has not been called
RangeIdle ==
    /\ start_date = 0
    /\ end_date = 0
    /\ current_start = 0
    /\ requests = << >>

\* run_matcher has not reached its last lines
ApplyIdle ==
    /\ update = FALSE
    /\ answer = "none"
    /\ sent = << >>
    /\ success_count = 0

(***************************************************************************)
(* Bounds of the model.                                                    *)
(***************************************************************************)
MaxYnab == 2        \* longest ledger list
MaxPaypal == 2      \* longest processor list
MaxMatches == 2     \* longest hand-built match list given to the builder
MaxTolDays == 4     \* largest date tolerance of the scorer specification
MaxCalls == 3       \* most match_transactions calls on one matcher

(***************************************************************************)
(* Exact rational arithmetic standing for Python's float arithmetic.       *)
(***************************************************************************)
Abs(x) == IF x < 0 THEN -x ELSE x

RECURSIVE GCD(_, _)
GCD(a, b) == IF b = 0 THEN a ELSE GCD(b, a % b)

\* n / d in lowest terms, d # 0
Frac(n, d) ==
    LET g == GCD(Abs(n), Abs(d))
        s == IF d < 0 THEN -1 ELSE 1
    IN  << (s * n) \div g, (s * d) \div g >>

ZeroDivisionError == << 1, 0 >>
Raised(q) == q[2] = 0

Zero == << 0, 1 >>
One == << 1, 1 >>

Add(p, q) == Frac(p[1] * q[2] + q[1] * p[2], p[2] * q[2])
Sub(p, q) == Frac(p[1] * q[2] - q[1] * p[2], p[2] * q[2])
Mul(p, q) == Frac(p[1] * q[1], p[2] * q[2])
Div(p, q) == IF q[1] = 0 THEN ZeroDivisionError
             ELSE Frac(p[1] * q[2], p[2] * q[1])
LT(p, q) == p[1] * q[2] < q[1] * p[2]
LE(p, q) == p[1] * q[2] <= q[1] * p[2]
Min(p, q) == IF LT(q, p) THEN q ELSE p

(***************************************************************************)
(* Data.                                                                   *)
(***************************************************************************)
BadDate == -1

None == << >>
Some(r) == << r >>

(***************************************************************************)
(* TransactionMatcher._calculate_match_score                               *)
(***************************************************************************)
\* str.upper() on the currency codes of the model
CurrencyUpper(c) ==
    CASE c = "gbp" -> "GBP"
      [] c = "Gbp" -> "GBP"
      [] c = "usd" -> "USD"
      [] OTHER -> c

\* Mutant of DateOutOfRange: the test for a processor date after the ledger
\* date is missing
DateOutOfRangeNoPast(date_diff) ==
    date_diff > date_tolerance_days

\* line 137: outside the acceptable date range
DateOutOfRange(date_diff) ==
    date_diff < 0 \/ date_diff > date_tolerance_days

\* Mutant of DateScore: the decay runs the wrong way, 0.5 at zero days
DateScoreRising(date_diff) ==
    LET ratio == Div(Frac(date_diff, 1), Frac(date_tolerance_days, 1)) IN
    IF Raised(ratio) THEN ZeroDivisionError
    ELSE Add(Frac(1, 2), Mul(ratio, Frac(1, 2)))

\* line 143; ZeroDivisionError when date_tolerance_days is 0
DateScore(date_diff) ==
    LET ratio == Div(Frac(date_diff, 1), Frac(date_tolerance_days, 1)) IN
    IF Raised(ratio) THEN ZeroDivisionError
    ELSE Sub(One, Mul(ratio, Frac(1, 2)))

\* line 151, for pp_amount # 0
AmountDiffPercent(ynab_amount, pp_amount) ==
    Frac(Abs(ynab_amount - pp_amount) * 100, pp_amount)

\* lines 153-159: beyond twice the tolerance the pair is rejected
AmountRejected(amount_diff_percent) ==
    /\ LT(Frac(amount_tolerance_percent, 1), amount_diff_percent)
    /\ ~LE(amount_diff_percent, Mul(Frac(amount_tolerance_percent, 1), Frac(2, 1)))

\* Mutant of AmountScore: inside the tolerance the score rises with the
\* difference, from 0.7 at an exact match to 1.0 at the tolerance
AmountScoreInverted(amount_diff_percent) ==
    IF LT(Frac(amount_tolerance_percent, 1), amount_diff_percent)
    THEN Frac(3, 10)
    ELSE LET ratio == Div(amount_diff_percent, Frac(amount_tolerance_percent, 1)) IN
         IF Raised(ratio) THEN ZeroDivisionError
         ELSE Add(Frac(7, 10), Mul(ratio, Frac(3, 10)))

\* Mutant of AmountScore: no flat partial credit, the slope of line 163
\* continues up to twice the tolerance
AmountScoreSloped(amount_diff_percent) ==
    LET ratio == Div(amount_diff_percent, Frac(amount_tolerance_percent, 1)) IN
    IF Raised(ratio) THEN ZeroDivisionError
    ELSE Sub(One, Mul(ratio, Frac(3, 10)))

\* lines 153-163 for a pair that is not rejected; ZeroDivisionError when
\* amount_tolerance_percent is 0
AmountScore(amount_diff_percent) ==
    IF LT(Frac(amount_tolerance_percent, 1), amount_diff_percent)
    THEN Frac(3, 10)
    ELSE LET ratio == Div(amount_diff_percent, Frac(amount_tolerance_percent, 1)) IN
         IF Raised(ratio) THEN ZeroDivisionError
         ELSE Sub(One, Mul(ratio, Frac(3, 10)))

\* Mutant of CurrencyBonus: the bonus is given whatever the currency
CurrencyBonusAlways(currency) ==
    Frac(1, 10)

\* line 166
CurrencyBonus(currency) ==
    IF CurrencyUpper(currency) = "GBP" THEN Frac(1, 10) ELSE Zero

\* lines 170-172
TotalScore(date_score, amount_score, currency_bonus) ==
    Min(Add(Add(Mul(date_score, Frac(2, 5)), Mul(amount_score, Frac(1, 2))),
            currency_bonus), One)

calculate_match_score(ynab_date, ynab_amount, paypal_txn) ==
    IF paypal_txn.date = BadDate THEN Zero
    ELSE
    LET date_diff == ynab_date - paypal_txn.date IN
    IF DateOutOfRange(date_diff) THEN Zero
    ELSE
    LET date_score == DateScore(date_diff)
        pp_amount == paypal_txn.gross_amount
    IN
    IF Raised(date_score) THEN ZeroDivisionError
    ELSE IF pp_amount = 0 THEN Zero
    ELSE
    LET amount_diff_percent == AmountDiffPercent(ynab_amount, pp_amount) IN
    IF AmountRejected(amount_diff_percent) THEN Zero
    ELSE
    LET amount_score == AmountScore(amount_diff_percent) IN
    IF Raised(amount_score) THEN ZeroDivisionError
    ELSE TotalScore(date_score, amount_score, CurrencyBonus(paypal_txn.currency))

(***************************************************************************)
(* TransactionMatcher._get_confidence_level                                *)
(***************************************************************************)
\* Mutant of get_confidence_level: the boundaries fall in the lower tier
get_confidence_level_strict(s) ==
    IF LT(Frac(9, 10), s) THEN "high"
    ELSE IF LT(Frac(7, 10), s) THEN "medium"
    ELSE IF LT(Frac(5, 10), s) THEN "low"
    ELSE "very_low"

get_confidence_level(s) ==
    IF LE(Frac(9, 10), s) THEN "high"
    ELSE IF LE(Frac(7, 10), s) THEN "medium"
    ELSE IF LE(Frac(5, 10), s) THEN "low"
    ELSE "very_low"

(***************************************************************************)
(* TransactionMatcher._find_best_match                                     *)
(***************************************************************************)
\* Mutant of min_score_threshold: the floor is 0.6
min_score_threshold_raised == Frac(3, 5)

\* line 87
min_score_threshold == Frac(1, 2)

\* Mutant of AlreadyMatched: claimed records are not skipped
AlreadyMatchedNever(pp_txn, already_matched) ==
    FALSE

\* line 94: the record's identifier is in the claim set
AlreadyMatched(pp_txn, already_matched) ==
    pp_txn.transaction_id \in already_matched

\* Mutant of IsBetter: a score of exactly 0.5 is refused
IsBetterStrictFloor(s, best_score) ==
    LT(best_score, s) /\ LT(min_score_threshold, s)

\* Mutant of IsBetter: the 0.5 floor is missing and an equal score is taken
IsBetterNoFloor(s, best_score) ==
    LE(best_score, s)

\* Mutant of IsBetter: a later record with an equal score replaces the best
IsBetterLastTie(s, best_score) ==
    LE(best_score, s) /\ LE(min_score_threshold, s)

\* line 105: the candidate replaces the best one found so far
IsBetter(s, best_score) ==
    LT(best_score, s) /\ LE(min_score_threshold, s)

\* The for loop of lines 92-107 from index j on.  best is the pair of locals
\* (best_match, best_score); raised is set when a score computation raises.
RECURSIVE BestMatchLoop(_, _, _, _, _, _)
BestMatchLoop(ynab_date, ynab_amount, pp_list, already_matched, j, best) ==
    IF j > Len(pp_list) THEN best
    ELSE
    LET pp_txn == pp_list[j] IN
    IF AlreadyMatched(pp_txn, already_matched)
    THEN BestMatchLoop(ynab_date, ynab_amount, pp_list, already_matched, j + 1, best)
    ELSE
    LET s == calculate_match_score(ynab_date, ynab_amount, pp_txn) IN
    IF Raised(s)
    THEN [raised |-> TRUE, best_match |-> None, best_score |-> Zero]
    ELSE IF IsBetter(s, best.best_score)
    THEN BestMatchLoop(ynab_date, ynab_amount, pp_list, already_matched, j + 1,
                       [raised |-> FALSE, best_match |-> Some(pp_txn), best_score |-> s])
    ELSE BestMatchLoop(ynab_date, ynab_amount, pp_list, already_matched, j + 1, best)

\* The result is [raised, best_match, best_score]: best_match = None stands
\* for the None result, raised for an exception leaving the function
\* (strptime's ValueError on the ledger date, or a ZeroDivisionError).
find_best_match(ynab_txn, pp_list, already_matched) ==
    IF ynab_txn.date = BadDate
    THEN [raised |-> TRUE, best_match |-> None, best_score |-> Zero]
    ELSE BestMatchLoop(ynab_txn.date, Abs(ynab_txn.amount), pp_list, already_matched, 1,
                       [raised |-> FALSE, best_match |-> None, best_score |-> Zero])

(***************************************************************************)
(* TransactionMatcher.generate_update_script                               *)
(***************************************************************************)
\* Mutant of AllowedConfidence: each level allows only itself
AllowedConfidenceExact(mc) ==
    CASE mc = "high" -> {"high"}
      [] mc = "medium" -> {"medium"}
      [] mc = "low" -> {"low"}
      [] OTHER -> {"high"}

\* Mutant of AllowedConfidence: an unknown level allows every confidence
AllowedConfidenceDefaultAll(mc) ==
    CASE mc = "high" -> {"high"}
      [] mc = "medium" -> {"high", "medium"}
      [] mc = "low" -> {"high", "medium", "low"}
      [] OTHER -> {"high", "medium", "low", "very_low", "no_match"}

\* confidence_levels.get(min_confidence, ['high'])
AllowedConfidence(mc) ==
    CASE mc = "high" -> {"high"}
      [] mc = "medium" -> {"high", "medium"}
      [] mc = "low" -> {"high", "medium", "low"}
      [] OTHER -> {"high"}

\* f"{amount:.2f}" of line 326 for an amount held in pence
Format2f(amount) ==
    (IF amount < 0 THEN "-" ELSE "")
    \o ToString(Abs(amount) \div 100) \o "."
    \o ToString((Abs(amount) % 100) \div 10) \o ToString(Abs(amount) % 10)

\* Mutant of NewMemoParts: the currency part is appended before the item part
NewMemoPartsCurrencyFirst(paypal) ==
    << paypal.merchant_name >>
    \o (IF paypal.currency # "GBP"
        THEN << "[" \o paypal.currency \o " " \o Format2f(paypal.gross_amount) \o "]" >>
        ELSE << >>)
    \o (IF paypal.item_title # "" THEN << "(" \o paypal.item_title \o ")" >> ELSE << >>)

\* lines 322-326: parts = [merchant], then the two conditional appends
NewMemoParts(paypal) ==
    << paypal.merchant_name >>
    \o (IF paypal.item_title # "" THEN << "(" \o paypal.item_title \o ")" >> ELSE << >>)
    \o (IF paypal.currency # "GBP"
        THEN << "[" \o paypal.currency \o " " \o Format2f(paypal.gross_amount) \o "]" >>
        ELSE << >>)

\* sep.join(parts)
RECURSIVE Join(_, _)
Join(parts, sep) ==
    IF parts = << >> THEN ""
    ELSE IF Len(parts) = 1 THEN parts[1]
    ELSE parts[1] \o sep \o Join(Tail(parts), sep)

\* line 328
NewMemo(paypal) == Join(NewMemoParts(paypal), " ")

\* line 312
Eligible(match, mc) ==
    match.paypal # None /\ match.confidence \in AllowedConfidence(mc)

UpdateOf(match) ==
    [transaction_id |-> match.ynab.id,
     new_memo |-> NewMemo(match.paypal[1]),
     merchant_name |-> match.paypal[1].merchant_name,
     confidence |-> match.confidence]

\* Mutant of generate_update_script: each update is put in front of the list
RECURSIVE generate_update_script_prepending(_, _)
generate_update_script_prepending(ms, mc) ==
    IF ms = << >> THEN << >>
    ELSE generate_update_script_prepending(Tail(ms), mc)
         \o (IF Eligible(Head(ms), mc) THEN << UpdateOf(Head(ms)) >> ELSE << >>)

\* lines 310-337: the loop over the results, in their order
RECURSIVE generate_update_script(_, _)
generate_update_script(ms, mc) ==
    IF ms = << >> THEN << >>
    ELSE (IF Eligible(Head(ms), mc) THEN << UpdateOf(Head(ms)) >> ELSE << >>)
         \o generate_update_script(Tail(ms), mc)

(***************************************************************************)
(* Inputs.  The ledger side comes from YNABClient.parse_transaction, the   *)
(* processor side from PayPalCSVParser / PayPalAPIClient, which default a  *)
(* missing transaction id to the empty string and take abs() of amounts.   *)
(***************************************************************************)
\* All sequences over S of length at most n
RECURSIVE SeqsUpTo(_, _)
SeqsUpTo(S, n) ==
    IF n = 0 THEN { << >> }
    ELSE LET shorter == SeqsUpTo(S, n - 1) IN
         shorter \cup { Append(q, x) : q \in { r \in shorter : Len(r) = n - 1 }, x \in S }

YnabDates == {10, 11, BadDate}
YnabAmounts == {-2500}
\* The ledger record at position i; its id is unique
YnabTxns(i) == [id : {i}, date : YnabDates, amount : YnabAmounts]

RECURSIVE YnabLists(_)
YnabLists(n) ==
    IF n = 0 THEN { << >> }
    ELSE LET shorter == YnabLists(n - 1) IN
         shorter \cup { Append(q, y) : q \in { r \in shorter : Len(r) = n - 1 },
                                       y \in YnabTxns(n) }

\* The matcher only tests identifiers for membership in the claim set; one
\* non-empty and the empty identifier give equal and different pairs.  The
\* currency only enters the score; it varies in SpecScore and SpecUpdates.
PaypalIds == {"T1", ""}
PaypalDates == {7, 11, BadDate}
PaypalAmounts == {0, 2400, 2500}
PaypalCurrencies == {"GBP"}
PaypalTxns ==
    [transaction_id : PaypalIds, date : PaypalDates, gross_amount : PaypalAmounts,
     currency : PaypalCurrencies, merchant_name : {"Acme"}, item_title : {""}]

DateTolerances == {0, 4}
AmountTolerances == {3}

MinConfidences == {"high", "medium", "low", "other"}

(***************************************************************************)
(* Spec: one matcher, one match_transactions run over the two lists, then  *)
(* generate_update_script on its result.                                   *)
(***************************************************************************)
Init ==
    /\ date_tolerance_days \in DateTolerances
    /\ amount_tolerance_percent \in AmountTolerances
    /\ ynab_transactions \in YnabLists(MaxYnab)
    /\ paypal_transactions \in SeqsUpTo(PaypalTxns, MaxPaypal)
    /\ matches = << >>
    /\ matched_paypal_ids = {}
    /\ pc = "start"
    /\ updates = << >>
    /\ min_confidence = "none"
    /\ score = Zero
    /\ confidence = "none"
    /\ results = << >>
    /\ RangeIdle
    /\ ApplyIdle

\* lines 37-38: match_transactions is entered
Call ==
    /\ pc = "start"
    /\ pc' = "matching"
    /\ matches' = << >>
    /\ matched_paypal_ids' = {}
    /\ UNCHANGED << date_tolerance_days, amount_tolerance_percent, ynab_transactions,
                    paypal_transactions, updates, min_confidence, score, confidence,
                    results,
                    range_vars, apply_vars >>

\* The ledger record of the current iteration of the loop of line 40
Current == ynab_transactions[Len(matches) + 1]
Best == find_best_match(Current, paypal_transactions, matched_paypal_ids)

\* Mutant of AppendMatch: the matched record is taken out of the processor
\* list instead of being left in place
AppendMatchRemoving ==
    /\ pc = "matching"
    /\ Len(matches) < Len(ynab_transactions)
    /\ ~Best.raised
    /\ Best.best_match # None
    /\ matches' = Append(matches,
                         [ynab |-> Current,
                          paypal |-> Best.best_match,
                          score |-> Best.best_score,
                          confidence |-> get_confidence_level(Best.best_score)])
    /\ matched_paypal_ids' = matched_paypal_ids \cup {Best.best_match[1].transaction_id}
    /\ LET j == CHOOSE k \in 1 .. Len(paypal_transactions) :
                    /\ paypal_transactions[k] = Best.best_match[1]
                    /\ \A l \in 1 .. (k - 1) : paypal_transactions[l] # Best.best_match[1]
       IN paypal_transactions' = SubSeq(paypal_transactions, 1, j - 1)
                                 \o SubSeq(paypal_transactions, j + 1,
                                           Len(paypal_transactions))
    /\ UNCHANGED << date_tolerance_days, amount_tolerance_percent, ynab_transactions,
                    pc, updates, min_confidence, score, confidence, results,
                    range_vars, apply_vars >>

\* Mutant of AppendMatch: the claim set is overwritten with the new
\* identifier instead of being extended by it
AppendMatchOverwriting ==
    /\ pc = "matching"
    /\ Len(matches) < Len(ynab_transactions)
    /\ ~Best.raised
    /\ Best.best_match # None
    /\ matches' = Append(matches,
                         [ynab |-> Current,
                          paypal |-> Best.best_match,
                          score |-> Best.best_score,
                          confidence |-> get_confidence_level(Best.best_score)])
    /\ matched_paypal_ids' = {Best.best_match[1].transaction_id}
    /\ UNCHANGED << date_tolerance_days, amount_tolerance_percent, ynab_transactions,
                    paypal_transactions, pc, updates, min_confidence, score,
                    confidence, results,
                    range_vars, apply_vars >>

\* Mutant of AppendMatch: when the record that scores best with the claims
\* ignored is held by an earlier result of lower score, it is taken over and
\* the earlier result becomes no_match
AppendMatchReassigning ==
    /\ pc = "matching"
    /\ Len(matches) < Len(ynab_transactions)
    /\ ~Best.raised
    /\ Best.best_match # None
    /\ LET free == find_best_match(Current, paypal_transactions, {})
           holders == { i \in 1 .. Len(matches) :
                          /\ matches[i].paypal = free.best_match
                          /\ LT(matches[i].score, free.best_score) }
           taken == free.best_match # None /\ holders # {}
           chosen == IF taken THEN free ELSE Best
           kept == [ i \in 1 .. Len(matches) |->
                       IF taken /\ i \in holders
                       THEN [ynab |-> matches[i].ynab, paypal |-> None, score |-> Zero,
                             confidence |-> "no_match"]
                       ELSE matches[i] ]
       IN /\ matches' = Append(kept,
                               [ynab |-> Current,
                                paypal |-> chosen.best_match,
                                score |-> chosen.best_score,
                                confidence |-> get_confidence_level(chosen.best_score)])
          /\ matched_paypal_ids' =
                 matched_paypal_ids \cup {chosen.best_match[1].transaction_id}
    /\ UNCHANGED << date_tolerance_days, amount_tolerance_percent, ynab_transactions,
                    paypal_transactions, pc, updates, min_confidence, score,
                    confidence, results,
                    range_vars, apply_vars >>

\* lines 48-57: a best match was found
AppendMatch ==
    /\ pc = "matching"
    /\ Len(matches) < Len(ynab_transactions)
    /\ ~Best.raised
    /\ Best.best_match # None
    /\ matches' = Append(matches,
                         [ynab |-> Current,
                          paypal |-> Best.best_match,
                          score |-> Best.best_score,
                          confidence |-> get_confidence_level(Best.best_score)])
    /\ matched_paypal_ids' = matched_paypal_ids \cup {Best.best_match[1].transaction_id}
    /\ UNCHANGED << date_tolerance_days, amount_tolerance_percent, ynab_transactions,
                    paypal_transactions, pc, updates, min_confidence, score,
                    confidence, results,
                    range_vars, apply_vars >>

\* lines 58-65: no match found
AppendNoMatch ==
    /\ pc = "matching"
    /\ Len(matches) < Len(ynab_transactions)
    /\ ~Best.raised
    /\ Best.best_match = None
    /\ matches' = Append(matches,
                         [ynab |-> Current, paypal |-> None, score |-> Zero,
                          confidence |-> "no_match"])
    /\ UNCHANGED << date_tolerance_days, amount_tolerance_percent, ynab_transactions,
                    paypal_transactions, matched_paypal_ids, pc, updates,
                    min_confidence, score, confidence, results,
                    range_vars, apply_vars >>

\* an exception of _find_best_match leaves match_transactions
Raise ==
    /\ pc = "matching"
    /\ Len(matches) < Len(ynab_transactions)
    /\ Best.raised
    /\ pc' = "raised"
    /\ UNCHANGED << date_tolerance_days, amount_tolerance_percent, ynab_transactions,
                    paypal_transactions, matches, matched_paypal_ids, updates,
                    min_confidence, score, confidence, results,
                    range_vars, apply_vars >>

\* Mutant of Return: the return statement sits inside the loop
ReturnInsideLoop ==
    /\ pc = "matching"
    /\ Len(matches) >= 1 \/ Len(ynab_transactions) = 0
    /\ pc' = "returned"
    /\ results' = Append(results, matches)
    /\ UNCHANGED << date_tolerance_days, amount_tolerance_percent, ynab_transactions,
                    paypal_transactions, matches, matched_paypal_ids, updates,
                    min_confidence, score, confidence,
                    range_vars, apply_vars >>

\* line 67
Return ==
    /\ pc = "matching"
    /\ Len(matches) = Len(ynab_transactions)
    /\ pc' = "returned"
    /\ results' = Append(results, matches)
    /\ UNCHANGED << date_tolerance_days, amount_tolerance_percent, ynab_transactions,
                    paypal_transactions, matches, matched_paypal_ids, updates,
                    min_confidence, score, confidence,
                    range_vars, apply_vars >>

\* generate_update_script(matches, mc) on the returned list
GenerateUpdateScript(mc) ==
    /\ pc \in {"returned", "updated"}
    /\ updates' = generate_update_script(matches, mc)
    /\ min_confidence' = mc
    /\ pc' = "updated"
    /\ UNCHANGED << date_tolerance_days, amount_tolerance_percent, ynab_transactions,
                    paypal_transactions, matches, matched_paypal_ids, score,
                    confidence, results,
                    range_vars, apply_vars >>

Next ==
    \/ Call
    \/ AppendMatch
    \/ AppendNoMatch
    \/ Raise
    \/ Return
    \/ \E mc \in MinConfidences : GenerateUpdateScript(mc)

Spec == Init /\ [][Next]_vars

(***************************************************************************)
(* SpecRepeat: match_transactions called again and again on one matcher    *)
(* with the same two lists; the caller keeps every returned list.          *)
(***************************************************************************)
RepeatYnabDates == {10, 11}
RepeatYnabTxns(i) == [id : {i}, date : RepeatYnabDates, amount : YnabAmounts]

RECURSIVE RepeatYnabLists(_)
RepeatYnabLists(n) ==
    IF n = 0 THEN { << >> }
    ELSE LET shorter == RepeatYnabLists(n - 1) IN
         shorter \cup { Append(q, y) : q \in { r \in shorter : Len(r) = n - 1 },
                                       y \in RepeatYnabTxns(n) }

RepeatPaypalTxns ==
    [transaction_id : PaypalIds, date : {7, 11}, gross_amount : {2400, 2500},
     currency : PaypalCurrencies, merchant_name : {"Acme"}, item_title : {""}]

InitRepeat ==
    /\ date_tolerance_days \in DateTolerances
    /\ amount_tolerance_percent \in AmountTolerances
    /\ ynab_transactions \in RepeatYnabLists(MaxYnab)
    /\ paypal_transactions \in SeqsUpTo(RepeatPaypalTxns, MaxPaypal)
    /\ matches = << >>
    /\ matched_paypal_ids = {}
    /\ pc = "start"
    /\ updates = << >>
    /\ min_confidence = "none"
    /\ score = Zero
    /\ confidence = "none"
    /\ results = << >>
    /\ RangeIdle
    /\ ApplyIdle

\* Mutant of CallAgain: the claim set lives on the matcher and is not
\* emptied on entry
CallAgainKeepingClaims ==
    /\ pc \in {"returned", "raised"}
    /\ Len(results) < MaxCalls
    /\ pc' = "matching"
    /\ matches' = << >>
    /\ UNCHANGED << date_tolerance_days, amount_tolerance_percent, ynab_transactions,
                    paypal_transactions, matched_paypal_ids, updates, min_confidence,
                    score, confidence, results,
                    range_vars, apply_vars >>

\* lines 37-38: match_transactions is entered again, after a call that
\* returned or raised
CallAgain ==
    /\ pc \in {"returned", "raised"}
    /\ Len(results) < MaxCalls
    /\ pc' = "matching"
    /\ matches' = << >>
    /\ matched_paypal_ids' = {}
    /\ UNCHANGED << date_tolerance_days, amount_tolerance_percent, ynab_transactions,
                    paypal_transactions, updates, min_confidence, score, confidence,
                    results,
                    range_vars, apply_vars >>

NextRepeat ==
    \/ Call
    \/ CallAgain
    \/ AppendMatch
    \/ AppendNoMatch
    \/ Raise
    \/ Return

SpecRepeat == InitRepeat /\ [][NextRepeat]_vars

(***************************************************************************)
(* SpecScore: the scorer and the classifier as pure functions of one       *)
(* ledger record and one processor record.  The scorer accepts any record, *)
(* so the processor amounts include a negative one, which the loaders'     *)
(* abs() never produces.                                                   *)
(***************************************************************************)
ScoreYnabDate == 10
\* The default of TransactionMatcher.__init__, which the scenarios use
DefaultDateToleranceDays == 7
ScoreYnabAmounts == {-2400, -2500, -2575, -2650, -2700}
ScorePaypalDates == ((ScoreYnabDate - MaxTolDays - 1) .. (ScoreYnabDate + 1)) \cup {BadDate}
ScorePaypalAmounts == {-2500, 0, 2400, 2500}
ScoreCurrencies == {"GBP", "gbp", "USD", ""}
ScoreAmountTolerances == {0, 3}

InitScore ==
    /\ date_tolerance_days \in (0 .. MaxTolDays) \cup {DefaultDateToleranceDays}
    /\ amount_tolerance_percent \in ScoreAmountTolerances
    /\ ynab_transactions \in
           { << y >> : y \in [id : {1}, date : {ScoreYnabDate}, amount : ScoreYnabAmounts] }
    /\ paypal_transactions \in
           { << p >> : p \in [transaction_id : {"T1"}, date : ScorePaypalDates,
                              gross_amount : ScorePaypalAmounts,
                              currency : ScoreCurrencies,
                              merchant_name : {"Acme"}, item_title : {""}] }
    /\ matches = << >>
    /\ matched_paypal_ids = {}
    /\ pc = "start"
    /\ updates = << >>
    /\ min_confidence = "none"
    /\ score = Zero
    /\ confidence = "none"
    /\ results = << >>
    /\ RangeIdle
    /\ ApplyIdle

\* The call of lines 98-102 for the pair held in the two lists
PairScore ==
    calculate_match_score(ynab_transactions[1].date, Abs(ynab_transactions[1].amount),
                          paypal_transactions[1])

\* _calculate_match_score returns
ScoreReturn ==
    /\ pc = "start"
    /\ ~Raised(PairScore)
    /\ score' = PairScore
    /\ pc' = "scored"
    /\ UNCHANGED << date_tolerance_days, amount_tolerance_percent, ynab_transactions,
                    paypal_transactions, matches, matched_paypal_ids, updates,
                    min_confidence, confidence, results,
                    range_vars, apply_vars >>

\* _calculate_match_score raises ZeroDivisionError
ScoreRaise ==
    /\ pc = "start"
    /\ Raised(PairScore)
    /\ pc' = "raised"
    /\ UNCHANGED << date_tolerance_days, amount_tolerance_percent, ynab_transactions,
                    paypal_transactions, matches, matched_paypal_ids, updates,
                    min_confidence, score, confidence, results,
                    range_vars, apply_vars >>

\* _get_confidence_level(score)
Classify ==
    /\ pc = "scored"
    /\ confidence' = get_confidence_level(score)
    /\ pc' = "classified"
    /\ UNCHANGED << date_tolerance_days, amount_tolerance_percent, ynab_transactions,
                    paypal_transactions, matches, matched_paypal_ids, updates,
                    min_confidence, score, results,
                    range_vars, apply_vars >>

\* match_transactions on the two one-record lists: lines 37-67 with one
\* iteration of the loop and an empty claim set
MatchPair ==
    /\ pc = "scored"
    /\ LET best == find_best_match(ynab_transactions[1], paypal_transactions, {}) IN
       /\ ~best.raised
       /\ matches' =
              IF best.best_match # None
              THEN << [ynab |-> ynab_transactions[1],
                       paypal |-> best.best_match,
                       score |-> best.best_score,
                       confidence |-> get_confidence_level(best.best_score)] >>
              ELSE << [ynab |-> ynab_transactions[1], paypal |-> None, score |-> Zero,
                       confidence |-> "no_match"] >>
    /\ pc' = "matched"
    /\ results' = Append(results, matches')
    /\ UNCHANGED << date_tolerance_days, amount_tolerance_percent, ynab_transactions,
                    paypal_transactions, matched_paypal_ids, updates, min_confidence,
                    score, confidence,
                    range_vars, apply_vars >>

NextScore ==
    \/ ScoreReturn
    \/ ScoreRaise
    \/ Classify
    \/ MatchPair

SpecScore == InitScore /\ [][NextScore]_vars

(***************************************************************************)
(* SpecUpdates: generate_update_script on any list of match results, also  *)
(* lists that match_transactions does not produce.                         *)
(***************************************************************************)
Confidences == {"high", "medium", "low", "very_low", "no_match"}
UpdatePaypalTxns ==
    [transaction_id : {"T1"}, date : {10}, gross_amount : {2405},
     currency : {"GBP", "gbp", "USD"}, merchant_name : {"Acme"},
     item_title : {"", "Widget"}]
\* The match results whose ledger record is the one at position i
MatchResults(i) ==
    [ynab : [id : {i}, date : {10}, amount : {-2500}],
     paypal : {None} \cup { Some(p) : p \in UpdatePaypalTxns },
     score : {Zero},
     confidence : Confidences]

RECURSIVE MatchLists(_)
MatchLists(n) ==
    IF n = 0 THEN { << >> }
    ELSE LET shorter == MatchLists(n - 1) IN
         shorter \cup { Append(q, m) : q \in { r \in shorter : Len(r) = n - 1 },
                                       m \in MatchResults(n) }

InitUpdates ==
    /\ date_tolerance_days = 7
    /\ amount_tolerance_percent = 3
    /\ ynab_transactions = << >>
    /\ paypal_transactions = << >>
    /\ matches \in MatchLists(MaxMatches)
    /\ matched_paypal_ids = {}
    /\ pc = "returned"
    /\ updates = << >>
    /\ min_confidence = "none"
    /\ score = Zero
    /\ confidence = "none"
    /\ results = << >>
    /\ RangeIdle
    /\ ApplyIdle

NextUpdates == \E mc \in MinConfidences : GenerateUpdateScript(mc)

SpecUpdates == InitUpdates /\ [][NextUpdates]_vars

(***************************************************************************)
(* SpecRange: PayPalAPIClient.get_transactions_for_range.  Dates are day    *)
(* numbers; a request asks for the whole days start_date .. end_date.       *)
(***************************************************************************)
MaxRangeDays == 65  \* longest range, in whole days
RangeStarts == {0, 1}
\* timedelta(days=31) of line 216
ChunkDays == 31
\* the limit of get_transactions, line 101
MaxRequestDays == 31

\* The matcher is not involved
MatcherIdle ==
    /\ date_tolerance_days = DefaultDateToleranceDays
    /\ amount_tolerance_percent = 3
    /\ ynab_transactions = << >>
    /\ paypal_transactions = << >>
    /\ matches = << >>
    /\ matched_paypal_ids = {}
    /\ updates = << >>
    /\ min_confidence = "none"
    /\ score = Zero
    /\ confidence = "none"
    /\ results = << >>

InitRange ==
    /\ MatcherIdle
    /\ ApplyIdle
    /\ pc = "start"
    /\ start_date \in RangeStarts
    /\ end_date \in start_date .. (start_date + MaxRangeDays)
    /\ current_start = 0
    /\ requests = << >>

\* lines 211-212: get_transactions_for_range is entered
RangeEnter ==
    /\ pc = "start"
    /\ current_start' = start_date
    /\ requests' = << >>
    /\ pc' = "range_loop"
    /\ UNCHANGED << matcher_vars, apply_vars, start_date, end_date >>

\* line 216
CurrentEnd == IF current_start + ChunkDays < end_date THEN current_start + ChunkDays
              ELSE end_date

\* lines 215-225: one iteration of the loop whose get_transactions call
\* returns; get_transactions raises ValueError for more than 31 days
RangeChunk ==
    /\ pc = "range_loop"
    /\ current_start < end_date
    /\ IF CurrentEnd - current_start > MaxRequestDays
       THEN /\ pc' = "raised"
            /\ UNCHANGED << requests, current_start >>
       ELSE /\ requests' = Append(requests,
                                  [start_date |-> current_start, end_date |-> CurrentEnd])
            /\ current_start' = CurrentEnd + 1
            /\ pc' = "range_loop"
    /\ UNCHANGED << matcher_vars, apply_vars, start_date, end_date >>

\* lines 218 and 144-148: the request of this iteration fails and the
\* RequestException leaves get_transactions_for_range
RangeRequestFails ==
    /\ pc = "range_loop"
    /\ current_start < end_date
    /\ CurrentEnd - current_start <= MaxRequestDays
    /\ requests' = Append(requests,
                          [start_date |-> current_start, end_date |-> CurrentEnd])
    /\ pc' = "failed"
    /\ UNCHANGED << matcher_vars, apply_vars, start_date, end_date, current_start >>

\* lines 215 and 227: the loop condition is false
RangeReturn ==
    /\ pc = "range_loop"
    /\ ~(current_start < end_date)
    /\ pc' = "range_done"
    /\ UNCHANGED << matcher_vars, apply_vars, start_date, end_date, current_start,
                    requests >>

NextRange ==
    \/ RangeEnter
    \/ RangeChunk
    \/ RangeRequestFails
    \/ RangeReturn

SpecRange == InitRange /\ [][NextRange]_vars

(***************************************************************************)
(* SpecApply: the last lines of run_matcher (display_matches, then          *)
(* apply_updates when --update is set) on a returned list of match results. *)
(***************************************************************************)
ApplyPaypalTxns ==
    [transaction_id : {"T1"}, date : {10}, gross_amount : {2405},
     currency : {"USD"}, merchant_name : {"Acme"}, item_title : {"Widget"}]
\* The match results whose ledger record is the one at position i
ApplyMatchResults(i) ==
    [ynab : [id : {i}, date : {10}, amount : {-2500}],
     paypal : {None} \cup { Some(p) : p \in ApplyPaypalTxns },
     score : {Zero},
     confidence : Confidences]

RECURSIVE ApplyMatchLists(_)
ApplyMatchLists(n) ==
    IF n = 0 THEN { << >> }
    ELSE LET shorter == ApplyMatchLists(n - 1) IN
         shorter \cup { Append(q, m) : q \in { r \in shorter : Len(r) = n - 1 },
                                       m \in ApplyMatchResults(n) }

\* click.Choice(["high", "medium", "low"]) of the --confidence option
ConfidenceChoices == {"high", "medium", "low"}
\* What the user types at click.confirm: yes, no, or just the return key
Answers == {"y", "n", ""}

\* The state after line 309: match_transactions has returned
InitApply ==
    /\ date_tolerance_days = DefaultDateToleranceDays
    /\ amount_tolerance_percent = 3
    /\ ynab_transactions = << >>
    /\ paypal_transactions = << >>
    /\ matches \in ApplyMatchLists(MaxMatches)
    /\ matched_paypal_ids = {}
    /\ pc = "returned"
    /\ updates = << >>
    /\ min_confidence = "none"
    /\ score = Zero
    /\ confidence = "none"
    /\ results = << >>
    /\ RangeIdle
    /\ update \in BOOLEAN
    /\ answer = "none"
    /\ sent = << >>
    /\ success_count = 0

\* line 313: display_matches
DisplayMatches ==
    /\ pc = "returned"
    /\ pc' = "displayed"
    /\ UNCHANGED << matcher_vars, range_vars, apply_vars >>

\* line 316: --update is not set, run_matcher ends
NoUpdate ==
    /\ pc = "displayed"
    /\ ~update
    /\ pc' = "exit"
    /\ UNCHANGED << matcher_vars, range_vars, apply_vars >>

\* lines 316-317 and 447-456: apply_updates is called, builds the updates
\* and returns when there are none
ApplyGenerate(mc) ==
    /\ pc = "displayed"
    /\ update
    /\ updates' = generate_update_script(matches, mc)
    /\ min_confidence' = mc
    /\ pc' = IF updates' = << >> THEN "exit" ELSE "prompt"
    /\ UNCHANGED << date_tolerance_days, amount_tolerance_percent, ynab_transactions,
                    paypal_transactions, matches, matched_paypal_ids, score,
                    confidence, results, range_vars, apply_vars >>

\* Mutant of Confirm: the prompt's default is yes
ConfirmDefaultYes(a) ==
    /\ pc = "prompt"
    /\ answer' = a
    /\ pc' = IF a \in {"y", ""} THEN "applying" ELSE "exit"
    /\ success_count' = 0
    /\ UNCHANGED << matcher_vars, range_vars, update, sent >>

\* lines 477-483: click.confirm(..., default=False)
Confirm(a) ==
    /\ pc = "prompt"
    /\ answer' = a
    /\ pc' = IF a = "y" THEN "applying" ELSE "exit"
    /\ success_count' = 0
    /\ UNCHANGED << matcher_vars, range_vars, update, sent >>

\* lines 488-497: one iteration of the loop; update_transaction_memo returns
\* True, or False when its request failed
SendUpdate(ok) ==
    /\ pc = "applying"
    /\ Len(sent) < Len(updates)
    /\ sent' = Append(sent, [transaction_id |-> updates[Len(sent) + 1].transaction_id,
                             memo |-> updates[Len(sent) + 1].new_memo])
    /\ success_count' = success_count + (IF ok THEN 1 ELSE 0)
    /\ UNCHANGED << matcher_vars, range_vars, pc, update, answer >>

\* lines 499-501: the loop is over
ApplyReturn ==
    /\ pc = "applying"
    /\ Len(sent) = Len(updates)
    /\ pc' = "exit"
    /\ UNCHANGED << matcher_vars, range_vars, apply_vars >>

NextApply ==
    \/ DisplayMatches
    \/ NoUpdate
    \/ \E mc \in ConfidenceChoices : ApplyGenerate(mc)
    \/ \E a \in Answers : Confirm(a)
    \/ \E ok \in BOOLEAN : SendUpdate(ok)
    \/ ApplyReturn

SpecApply == InitApply /\ [][NextApply]_vars

(***************************************************************************)
(* Properties.                                                             *)
(***************************************************************************)
Returned == pc \in {"returned", "updated"}
Matched(m) == m.paypal # None

\* The processor records not yet claimed, by position in the list
Candidates ==
    { j \in 1 .. Len(paypal_transactions) :
        paypal_transactions[j].transaction_id \notin matched_paypal_ids }
\* The scorer's value for ledger record y and the processor record at j
ScoreOf(y, j) ==
    calculate_match_score(y.date, Abs(y.amount), paypal_transactions[j])
\* A step of the run that emits the result of one ledger record
EmitsResult == Len(matches') = Len(matches) + 1
NewResult == matches'[Len(matches')]

\* C1: in one match_transactions run no processor transaction identifier is
\* the matched processor side of two different results.
C1_NoIdMatchedTwice ==
    \A i, j \in 1 .. Len(matches) :
        (i # j /\ Matched(matches[i]) /\ Matched(matches[j]))
            => matches[i].paypal[1].transaction_id # matches[j].paypal[1].transaction_id

\* Two ledger records of the same date and amount both matched: the second
\* one scores the first one's record just as high, and did not get it.
C1_Witness ==
    /\ Returned
    /\ Len(matches) = 2
    /\ Matched(matches[1]) /\ Matched(matches[2])
    /\ ynab_transactions[1].date = ynab_transactions[2].date

\* C2: match_transactions returns exactly one result per ledger record, in
\* the ledger's order: result i holds ledger record i, and there are as many
\* results as ledger records, whatever the processor list holds.
C2_OneResultPerLedgerRecord ==
    /\ Len(matches) <= Len(ynab_transactions)
    /\ \A i \in 1 .. Len(matches) : matches[i].ynab = ynab_transactions[i]
    /\ Returned => Len(matches) = Len(ynab_transactions)

\* Two ledger records against an empty processor list
C2_Witness ==
    /\ Returned
    /\ Len(ynab_transactions) = 2
    /\ paypal_transactions = << >>
    /\ Len(matches) = 2

\* C3: each ledger record, in input order, gets the unclaimed processor
\* record of maximum score when that maximum is at least 0.5 (0.5 included),
\* with that score recorded and its identifier claimed; otherwise it gets
\* no_match with score 0 and the claim set stays as it was.
C3_Step ==
    EmitsResult =>
        LET y == ynab_transactions[Len(matches) + 1]
            r == NewResult
            good == { j \in Candidates : LE(Frac(1, 2), ScoreOf(y, j)) }
        IN  IF good # {}
            THEN /\ Matched(r)
                 /\ \E j \in good :
                        /\ r.paypal = Some(paypal_transactions[j])
                        /\ r.score = ScoreOf(y, j)
                        /\ \A k \in Candidates : LE(ScoreOf(y, k), r.score)
                 /\ matched_paypal_ids' =
                        matched_paypal_ids \cup {r.paypal[1].transaction_id}
            ELSE /\ r.paypal = None
                 /\ r.score = Zero
                 /\ r.confidence = "no_match"
                 /\ matched_paypal_ids' = matched_paypal_ids
C3_GreedyMaximum == [][C3_Step]_vars

\* A record was accepted with a score of exactly 0.5
C3_Witness ==
    \E i \in 1 .. Len(matches) :
        Matched(matches[i]) /\ matches[i].score = Frac(1, 2)

\* C4: in every emitted result the confidence is no_match exactly when the
\* processor side is absent, and the score is 0 exactly when the confidence
\* is no_match.
C4_NoMatchIffAbsent ==
    \A i \in 1 .. Len(matches) :
        /\ (matches[i].confidence = "no_match") <=> (matches[i].paypal = None)
        /\ (matches[i].score = Zero) <=> (matches[i].confidence = "no_match")

\* A run that emitted both a match and a no_match
C4_Witness ==
    /\ Returned
    /\ \E i, j \in 1 .. Len(matches) :
        Matched(matches[i]) /\ matches[j].confidence = "no_match"

\* The pair of the scorer specification
TheYnab == ynab_transactions[1]
ThePaypal == paypal_transactions[1]
TheDateDiff == TheYnab.date - ThePaypal.date
Scored == pc \in {"scored", "classified"}
\* The processor date is after the ledger date or more than the tolerance
\* before it
OutsideDateRange ==
    /\ ThePaypal.date # BadDate
    /\ TheDateDiff < 0 \/ TheDateDiff > date_tolerance_days
InsideDateRange ==
    /\ ThePaypal.date # BadDate
    /\ TheDateDiff >= 0 /\ TheDateDiff <= date_tolerance_days
\* The percentage difference |ledger - processor| / processor * 100 is more
\* than twice the tolerance
OutsideAmountRange ==
    /\ ThePaypal.gross_amount > 0
    /\ 100 * Abs(Abs(TheYnab.amount) - ThePaypal.gross_amount)
          > 2 * amount_tolerance_percent * ThePaypal.gross_amount

\* C5: the scorer returns 0 for a pair outside the date range or outside the
\* amount range, whatever the other component and the currency.
C5_OutOfRangeScoresZero ==
    (Scored /\ (OutsideDateRange \/ OutsideAmountRange)) => score = Zero

\* Inside the date range, home currency, amount beyond twice the tolerance
C5_Witness ==
    /\ Scored
    /\ InsideDateRange
    /\ OutsideAmountRange
    /\ ThePaypal.currency = "GBP"
    /\ score = Zero

\* C6: with a non-negative processor amount and positive tolerances the
\* score lies in [0, 1], and it is 1 only at zero days difference, equal
\* amounts and the home currency GBP (compared as the scorer does, in upper
\* case).
C6_ScoreRange ==
    (/\ Scored
     /\ ThePaypal.gross_amount >= 0
     /\ date_tolerance_days > 0
     /\ amount_tolerance_percent > 0)
        => /\ LE(Zero, score) /\ LE(score, One)
           /\ score = One =>
                /\ TheDateDiff = 0
                /\ Abs(TheYnab.amount) = ThePaypal.gross_amount
                /\ CurrencyUpper(ThePaypal.currency) = "GBP"

\* A pair that scores exactly 1
C6_Witness ==
    /\ Scored
    /\ ThePaypal.gross_amount >= 0
    /\ date_tolerance_days > 0
    /\ amount_tolerance_percent > 0
    /\ score = One

\* The score of the pair with the processor date moved to d days before the
\* ledger date
ScoreAtDays(d) ==
    calculate_match_score(TheYnab.date, Abs(TheYnab.amount),
                          [ThePaypal EXCEPT !.date = TheYnab.date - d])

\* C7: with the amounts and the currency fixed, the score does not increase
\* with the day difference over 0 .. date_tolerance_days.
C7_MonotoneInDays ==
    (Scored /\ InsideDateRange) =>
        \A d \in TheDateDiff .. date_tolerance_days :
            ~Raised(ScoreAtDays(d)) /\ LE(ScoreAtDays(d), score)

\* The score at zero days is above the nonzero score at the tolerance
C7_Witness ==
    /\ Scored
    /\ InsideDateRange
    /\ TheDateDiff = 0
    /\ LT(Zero, ScoreAtDays(date_tolerance_days))
    /\ LT(ScoreAtDays(date_tolerance_days), score)

\* The first position of record p in the processor list
FirstIndex(p) ==
    CHOOSE j \in 1 .. Len(paypal_transactions) :
        /\ paypal_transactions[j] = p
        /\ \A i \in 1 .. (j - 1) : paypal_transactions[i] # p

\* C8: among several unclaimed processor records of the same maximum score
\* the one first in the processor list is selected; a later record of equal
\* score never replaces an earlier one.
C8_Step ==
    (EmitsResult /\ Matched(NewResult)) =>
        LET y == ynab_transactions[Len(matches) + 1] IN
        \A k \in Candidates :
            ScoreOf(y, k) = NewResult.score => FirstIndex(NewResult.paypal[1]) <= k
C8_FirstOfTies == [][C8_Step]_vars

\* Two different processor records tie for the first ledger record and the
\* first of them was taken
C8_Witness ==
    /\ Returned
    /\ Len(matches) >= 1
    /\ Len(paypal_transactions) = 2
    /\ paypal_transactions[1] # paypal_transactions[2]
    /\ ScoreOf(ynab_transactions[1], 1) = ScoreOf(ynab_transactions[1], 2)
    /\ matches[1].paypal = Some(paypal_transactions[1])

\* C9: the classifier gives high from 0.9, medium from 0.7 to below 0.9, low
\* from 0.5 to below 0.7 and very_low below 0.5; the boundaries fall in the
\* higher tier and it never gives no_match.
C9_Tiers ==
    pc = "classified" =>
        /\ LE(Frac(9, 10), score) => confidence = "high"
        /\ (LE(Frac(7, 10), score) /\ LT(score, Frac(9, 10))) => confidence = "medium"
        /\ (LE(Frac(1, 2), score) /\ LT(score, Frac(7, 10))) => confidence = "low"
        /\ LT(score, Frac(1, 2)) => confidence = "very_low"
        /\ confidence # "no_match"

\* A score on the boundary 0.7
C9_Witness ==
    /\ pc = "classified"
    /\ score = Frac(7, 10)
    /\ confidence = "medium"

\* a is a subsequence of b
RECURSIVE IsSubseq(_, _)
IsSubseq(a, b) ==
    IF a = << >> THEN TRUE
    ELSE IF b = << >> THEN FALSE
    ELSE IF Head(a) = Head(b) THEN IsSubseq(Tail(a), Tail(b))
    ELSE IsSubseq(a, Tail(b))

\* C10: the update list built with min_confidence high is a subsequence of
\* the one built with medium, which is a subsequence of the one built with
\* low.
C10_AllowSetsNested ==
    pc = "updated" =>
        /\ min_confidence = "high" =>
              /\ IsSubseq(updates, generate_update_script(matches, "medium"))
              /\ IsSubseq(updates, generate_update_script(matches, "low"))
        /\ min_confidence = "medium" =>
              IsSubseq(updates, generate_update_script(matches, "low"))

\* The list for high is not empty and shorter than the list for medium
C10_Witness ==
    /\ pc = "updated"
    /\ min_confidence = "high"
    /\ updates # << >>
    /\ Len(updates) < Len(generate_update_script(matches, "medium"))

\* The result an update was built from: updates carry the id of the result's
\* ledger record, which is the record's position in the list.
ResultOf(u) == matches[u.transaction_id]

\* C11: generate_update_script never emits an update for a result whose
\* confidence is very_low or no_match, or whose processor side is absent,
\* whatever min_confidence is, the values outside high/medium/low included.
C11_NeverBelowLow ==
    pc = "updated" =>
        \A k \in 1 .. Len(updates) :
            /\ ResultOf(updates[k]).paypal # None
            /\ ResultOf(updates[k]).confidence \notin {"very_low", "no_match"}
            /\ updates[k].confidence \notin {"very_low", "no_match"}

\* An unknown min_confidence, a very_low result with a processor side and a
\* high one: only the high one is emitted.
C11_Witness ==
    /\ pc = "updated"
    /\ min_confidence = "other"
    /\ Len(matches) = 2
    /\ matches[1].confidence = "very_low" /\ matches[1].paypal # None
    /\ matches[2].confidence = "high" /\ matches[2].paypal # None
    /\ Len(updates) = 1

\* The order of the confidence tiers; the allow-set of a documented
\* min_confidence holds the tiers of at least its rank.
Rank(c) ==
    CASE c = "high" -> 3
      [] c = "medium" -> 2
      [] c = "low" -> 1
      [] OTHER -> 0
\* The results that have a processor side and a confidence in the allow-set
Wanted(mc) ==
    SelectSeq(matches, LAMBDA m : m.paypal # None /\ Rank(m.confidence) >= Rank(mc))

\* C12: generate_update_script emits exactly one update per result whose
\* processor side is present and whose confidence is in the allow-set and none
\* for any other result; the updates are in the order of the results and each
\* carries the id of its result's ledger record.
C12_OneUpdatePerEligible ==
    (pc = "updated" /\ min_confidence \in {"high", "medium", "low"}) =>
        /\ Len(updates) = Len(Wanted(min_confidence))
        /\ \A k \in 1 .. Len(updates) :
               updates[k].transaction_id = Wanted(min_confidence)[k].ynab.id

\* Two eligible results of different confidence give two updates.
C12_Witness ==
    /\ pc = "updated"
    /\ min_confidence = "medium"
    /\ Len(matches) = 2
    /\ matches[1].confidence = "medium" /\ matches[2].confidence = "high"
    /\ Len(updates) = 2

\* C13: the annotation of each update is the merchant name, then the item
\* title in parentheses if and only if the item title is not empty, then
\* [CURRENCY amount] if and only if the processor currency differs from GBP,
\* in this order and separated by single spaces.
C13_MemoParts ==
    pc = "updated" =>
        \A k \in 1 .. Len(updates) :
            LET p == ResultOf(updates[k]).paypal[1] IN
            updates[k].new_memo =
                p.merchant_name
                \o (IF p.item_title # "" THEN " (" \o p.item_title \o ")" ELSE "")
                \o (IF p.currency # "GBP"
                    THEN " [" \o p.currency \o " " \o Format2f(p.gross_amount) \o "]"
                    ELSE "")

\* An update with all three parts, and one with the merchant name alone.
C13_Witness ==
    /\ pc = "updated"
    /\ Len(updates) = 2
    /\ updates[1].new_memo = "Acme (Widget) [USD 24.05]"
    /\ updates[2].new_memo = "Acme"

\* The scenario pair: ledger record of 2024-03-10 over -25.00, processor
\* record of 2024-03-08 over 25.00 GBP, tolerances 7 days and 3 percent.
C14_Scenario ==
    /\ date_tolerance_days = 7
    /\ amount_tolerance_percent = 3
    /\ TheYnab.date = 10 /\ TheYnab.amount = -2500
    /\ ThePaypal.date = 8 /\ ThePaypal.gross_amount = 2500
    /\ ThePaypal.currency = "GBP"

\* C14 as stated: in the scenario the day difference is 2, the amount score
\* is 1.0, the total score is about 0.843 and the confidence is medium.
C14_ScenarioMedium ==
    (C14_Scenario /\ pc = "classified") =>
        /\ TheDateDiff = 2
        /\ AmountScore(AmountDiffPercent(2500, 2500)) = One
        /\ LE(Frac(8425, 10000), score) /\ LE(score, Frac(8435, 10000))
        /\ confidence = "medium"

\* C14: in the scenario the day difference is 2, the amount score is 1.0, the
\* total score is 33/35, about 0.943, and the confidence is high.
C14_ScenarioHigh ==
    (C14_Scenario /\ pc = "classified") =>
        /\ TheDateDiff = 2
        /\ AmountScore(AmountDiffPercent(2500, 2500)) = One
        /\ score = Frac(33, 35)
        /\ LE(Frac(9425, 10000), score) /\ LE(score, Frac(9435, 10000))
        /\ confidence = "high"

C14_Witness == C14_Scenario /\ pc = "classified"

\* The scorer has returned for the pair
PairDone == pc \in {"scored", "classified", "matched"}
\* The percentage difference of ledger amount a against the pair's processor
\* amount, which is not 0
PctOf(a) == AmountDiffPercent(Abs(a), ThePaypal.gross_amount)
\* The pair's amounts differ by more than the tolerance and at most twice it
InPartialBand ==
    /\ ThePaypal.gross_amount # 0
    /\ LT(Frac(amount_tolerance_percent, 1), PctOf(TheYnab.amount))
    /\ LE(PctOf(TheYnab.amount), Frac(2 * amount_tolerance_percent, 1))

\* C15: for a pair inside the date range whose percentage difference is above
\* the tolerance and at most twice it, the amount score is the flat 0.3 (the
\* total is 0.4 * date score + 0.15 + bonus), the total is strictly lower than
\* for any within-tolerance amount with the same dates and currency, and the
\* matcher's result is low or no_match, never medium or high.
C15_PartialBand ==
    (PairDone /\ InsideDateRange /\ InPartialBand) =>
        /\ score = Add(Add(Mul(Frac(2 * date_tolerance_days - TheDateDiff,
                                    2 * date_tolerance_days), Frac(2, 5)),
                            Frac(3, 20)),
                        IF ThePaypal.currency \in {"GBP", "gbp"} THEN Frac(1, 10) ELSE Zero)
        /\ \A a \in ScoreYnabAmounts :
               LE(PctOf(a), Frac(amount_tolerance_percent, 1))
                   => LT(score, calculate_match_score(TheYnab.date, Abs(a), ThePaypal))
        /\ LT(score, Frac(7, 10))
        /\ pc = "classified" => confidence \in {"low", "very_low"}
        /\ pc = "matched" => /\ matches[1].confidence \in {"low", "no_match"}
                             /\ matches[1].confidence = "low" <=> LE(Frac(1, 2), score)

\* Ledger 25.00 against processor 24.00 at 3 percent, two days apart with the
\* default 7 days: the matcher's result is low.
C15_Witness ==
    /\ pc = "matched"
    /\ InsideDateRange /\ InPartialBand
    /\ date_tolerance_days = 7 /\ TheDateDiff = 2
    /\ TheYnab.amount = -2500 /\ ThePaypal.gross_amount = 2400
    /\ matches[1].confidence = "low"

\* The processor record of the pair has no usable date or no gross amount
SoftFailRecord == ThePaypal.date = BadDate \/ ThePaypal.gross_amount = 0

\* C16: when the processor record's date is missing or cannot be parsed, or
\* its gross amount is zero or missing, the scorer raises no error and returns
\* 0 whatever the dates, amount and currency are, and the record is not
\* selected as a match.
C16_SoftFail ==
    SoftFailRecord =>
        /\ pc # "raised"
        /\ PairDone => score = Zero
        /\ pc = "matched" => matches[1].paypal = None

\* Every date of both lists parses and every gross amount is positive
WellFormedLists ==
    /\ \A i \in 1 .. Len(ynab_transactions) : ynab_transactions[i].date # BadDate
    /\ \A j \in 1 .. Len(paypal_transactions) :
           /\ paypal_transactions[j].date # BadDate
           /\ paypal_transactions[j].gross_amount > 0

\* C17: for well-formed lists and tolerances of at least 0, 0 included,
\* match_transactions never ends in an error.
C17_Total ==
    (WellFormedLists /\ date_tolerance_days >= 0 /\ amount_tolerance_percent >= 0)
        => pc # "raised"

\* C18: a ledger record whose date cannot be parsed does not make
\* match_transactions raise (the tolerances being positive, so that no
\* division by zero is involved), and the returned list has a result for
\* every ledger record.
C18_MalformedLedgerTolerated ==
    (date_tolerance_days > 0 /\ amount_tolerance_percent > 0) =>
        /\ pc # "raised"
        /\ Returned => Len(matches) = Len(ynab_transactions)

\* C19: match_transactions and generate_update_script leave their inputs
\* unchanged: no step changes the ledger list or the processor list (no
\* record modified, no list reordered, shortened or extended),
\* generate_update_script leaves the result list it is given unchanged, and
\* every result holds records of the input lists.
C19_Step ==
    /\ ynab_transactions' = ynab_transactions
    /\ paypal_transactions' = paypal_transactions
    /\ pc \in {"returned", "updated"} => matches' = matches
    /\ \A i \in 1 .. Len(matches') :
           /\ matches'[i].ynab = ynab_transactions[i]
           /\ Matched(matches'[i]) =>
                  \E j \in 1 .. Len(paypal_transactions) :
                      matches'[i].paypal[1] = paypal_transactions[j]
C19_InputsUnchanged == [][C19_Step]_vars

\* A run that matched both ledger records, followed by an update list.
C19_Witness ==
    /\ pc = "updated"
    /\ Len(matches) = 2
    /\ Matched(matches[1]) /\ Matched(matches[2])
    /\ updates # << >>

\* C20: no state is carried between runs: every match_transactions call on
\* the same matcher and the same two lists starts with an empty claim set and
\* returns the same list as every other call, so a claim made in one call
\* excludes no processor record in another.
C20_NoStateBetweenRuns ==
    /\ \A a, b \in 1 .. Len(results) : results[a] = results[b]
    /\ (pc = "matching" /\ matches = << >>) => matched_paypal_ids = {}

\* Three calls returned, and the runs matched a processor record, which the
\* first call claimed and the later ones found free again.
C20_Witness ==
    /\ Len(results) = MaxCalls
    /\ pc = "returned"
    /\ \E i \in 1 .. Len(matches) : Matched(matches[i])
    /\ matched_paypal_ids # {}

\* C21: no result of match_transactions has confidence very_low: every
\* result's confidence is high, medium, low or no_match, and a matched result
\* has a score of at least 0.5.
C21_NeverVeryLow ==
    \A i \in 1 .. Len(matches) :
        /\ matches[i].confidence \in {"high", "medium", "low", "no_match"}
        /\ Matched(matches[i]) => LE(Frac(1, 2), matches[i].score)

\* A ledger record reported as no_match although a processor record scored
\* above 0 and below 0.5 against it.
C21_Witness ==
    /\ Returned
    /\ date_tolerance_days = 4
    /\ \E i \in 1 .. Len(matches) :
           /\ matches[i].confidence = "no_match"
           /\ \E j \in 1 .. Len(paypal_transactions) :
                  /\ LT(Zero, ScoreOf(matches[i].ynab, j))
                  /\ LT(ScoreOf(matches[i].ynab, j), Frac(1, 2))

\* The identifiers of the processor records of the matched results in ms
MatchedIds(ms) ==
    { ms[i].paypal[1].transaction_id : i \in { k \in 1 .. Len(ms) : Matched(ms[k]) } }

\* C22: during one run the claim set only grows: every step leaves it a
\* superset of what it was, a step that emits a result adds at most one
\* identifier, any other step adds none, and after every step it is exactly
\* the set of identifiers of the processor records of the matched results
\* emitted so far.
C22_Step ==
    /\ matched_paypal_ids \subseteq matched_paypal_ids'
    /\ Cardinality(matched_paypal_ids' \ matched_paypal_ids)
           <= (IF EmitsResult THEN 1 ELSE 0)
    /\ matched_paypal_ids' = MatchedIds(matches')
C22_ClaimSetGrows == [][C22_Step]_vars

\* Two matched results with different identifiers: the claim set grew twice.
C22_Witness ==
    /\ Returned
    /\ Len(matches) = 2
    /\ Cardinality(matched_paypal_ids) = 2
    /\ matched_paypal_ids = MatchedIds(matches)

\* C23: the assignment is greedy in ledger order: a step that emits a result
\* emits the one of the next ledger record and leaves every earlier result as
\* it is, and no other step changes a result; an earlier match is never
\* revisited or reassigned, also when a later ledger record scores higher
\* against its processor record (C23_Witness is such an input).
C23_Step ==
    /\ Len(matches') >= Len(matches)
    /\ \A i \in 1 .. Len(matches) : matches'[i] = matches[i]
    /\ EmitsResult => NewResult.ynab = ynab_transactions[Len(matches) + 1]
C23_GreedyInOrder == [][C23_Step]_vars

\* The first ledger record holds processor record P; the second one scores
\* strictly higher against P than the first one did and ends with a
\* lower-scoring match or with no_match.
C23_Witness ==
    /\ Returned
    /\ date_tolerance_days = 4
    /\ Len(matches) = 2
    /\ Matched(matches[1])
    /\ \E j \in 1 .. Len(paypal_transactions) :
           /\ paypal_transactions[j] = matches[1].paypal[1]
           /\ LT(matches[1].score, ScoreOf(ynab_transactions[2], j))
           /\ LT(matches[2].score, ScoreOf(ynab_transactions[2], j))

\* C24: at the turn of a ledger record a processor record is skipped as a
\* candidate only when that same record is the processor side of a result
\* emitted earlier in the run, also when its transaction_id is empty.
C24_SkippedOnlyIfUsed ==
    (pc = "matching" /\ Len(matches) < Len(ynab_transactions)) =>
        \A j \in 1 .. Len(paypal_transactions) :
            AlreadyMatched(paypal_transactions[j], matched_paypal_ids)
                => \E i \in 1 .. Len(matches) :
                       /\ Matched(matches[i])
                       /\ matches[i].paypal[1] = paypal_transactions[j]

\* The pair is inside both tolerances: day difference in 0 .. tolerance,
\* positive gross amount, percentage difference at most the tolerance
InsideBothTolerances ==
    /\ InsideDateRange
    /\ ThePaypal.gross_amount > 0
    /\ LE(PctOf(TheYnab.amount), Frac(amount_tolerance_percent, 1))

C26_SameHomeCurrencyTest ==
    pc = "updated" =>
        \A k \in 1 .. Len(updates) :
            LET p == ResultOf(updates[k]).paypal[1]
                base == p.merchant_name
                        \o (IF p.item_title # "" THEN " (" \o p.item_title \o ")" ELSE "")
                bracketed == base \o " [" \o p.currency \o " "
                             \o Format2f(p.gross_amount) \o "]"
            IN /\ updates[k].new_memo \in {base, bracketed}
               /\ updates[k].new_memo = bracketed <=> CurrencyBonus(p.currency) = Zero

\* The scorer's value for the pair with the ledger amount replaced by a
ScoreAtAmount(a) == calculate_match_score(TheYnab.date, Abs(a), ThePaypal)

\* C27: with the dates and the currency fixed the score does not increase
\* with the percentage difference: a ledger amount of at least the pair's
\* percentage difference scores at most the pair's score, one of at most the
\* pair's percentage difference at least the pair's score.
C27_MonotoneInAmount ==
    (PairDone /\ ThePaypal.gross_amount # 0) =>
        \A b \in ScoreYnabAmounts :
            ~Raised(ScoreAtAmount(b)) =>
                /\ LE(PctOf(TheYnab.amount), PctOf(b)) => LE(ScoreAtAmount(b), score)
                /\ LE(PctOf(b), PctOf(TheYnab.amount)) => LE(score, ScoreAtAmount(b))

\* A pair at the tolerance edge (3 percent): the exact amount scores higher,
\* the amount of the partial band (6 percent) lower, the one beyond twice
\* the tolerance (8 percent) 0.
C27_Witness ==
    /\ PairDone /\ InsideDateRange
    /\ amount_tolerance_percent = 3
    /\ ThePaypal.gross_amount = 2500 /\ TheYnab.amount = -2575
    /\ LT(score, ScoreAtAmount(-2500))
    /\ LT(ScoreAtAmount(-2650), score)
    /\ LT(Zero, ScoreAtAmount(-2650))
    /\ ScoreAtAmount(-2700) = Zero

\* The days requests k asks for
DaysOf(k) == requests[k].start_date .. requests[k].end_date

\* C28: get_transactions_for_range with start_date <= end_date issues its
\* requests in increasing date order, no request spans more than 31 days and
\* none is rejected, the number of requests is bounded by the range length,
\* and when it returns every day from start_date to end_date is covered by a
\* request, for every range length (0, 31, 32 and 64 days included).
C28_RangeCovered ==
    /\ pc # "raised"
    /\ \A k \in 1 .. Len(requests) :
           /\ requests[k].start_date <= requests[k].end_date
           /\ requests[k].end_date - requests[k].start_date <= 31
           /\ k > 1 => requests[k - 1].end_date < requests[k].start_date
    /\ Len(requests) <= (end_date - start_date) \div 32 + 1
    /\ pc = "range_done" =>
           \A d \in start_date .. end_date : \E k \in 1 .. Len(requests) : d \in DaysOf(k)

\* The memo update that update k of the list asks for
MemoUpdateOf(k) ==
    [transaction_id |-> updates[k].transaction_id, memo |-> updates[k].new_memo]

\* C29: write-back is gated: no memo update is sent when the update list is
\* empty or the user did not answer yes at the prompt (the default declines),
\* apply_updates is entered only with --update set and only after
\* display_matches has finished, and once confirmed the updates of the list
\* are attempted once each, in list order.
C29_WriteBackGated ==
    /\ sent # << >> => (update /\ answer = "y" /\ updates # << >>)
    /\ answer \in {"n", ""} => (sent = << >> /\ pc = "exit")
    /\ ~update => (updates = << >> /\ answer = "none" /\ sent = << >>)
    /\ pc \in {"returned", "displayed"} =>
           (updates = << >> /\ answer = "none" /\ sent = << >>)
    /\ Len(sent) <= Len(updates)
    /\ \A k \in 1 .. Len(sent) : sent[k] = MemoUpdateOf(k)
    /\ (pc = "exit" /\ answer = "y") => Len(sent) = Len(updates)

\* A confirmed run over two updates: both were attempted, one failed.
C29_Witness ==
    /\ pc = "exit"
    /\ answer = "y"
    /\ Len(updates) = 2
    /\ sent = << MemoUpdateOf(1), MemoUpdateOf(2) >>
    /\ success_count = 1

====
